---- MODULE Spec2Model ----
(***************************************************************************)
(* Decoy selection of the Monero wallet (coins/monero/src/wallet/decoys.rs) *)
(* as a state machine: one Decoys::select call, from the resolution of the  *)
(* real inputs to the returned Vec<Decoys>, with select_n's sampling and    *)
(* batch-resolution loops and the freshness-repair loop in between.         *)
(*                                                                          *)
(* Rust slices are 0-based and TLA+ sequences 1-based: At(s, i) reads the   *)
(* Rust position i.  An output is a record [idx, data]: its absolute index  *)
(* and its opaque [EdwardsPoint; 2].                                        *)
(*                                                                          *)
(* The random source R is an input of the call.  It is modelled as a        *)
(* generator whose state is the variable rng: next_u64 steps it and returns *)
(* the new state.  R is arbitrary, so each time select_n borrows it the     *)
(* model lets its stream continue from any of the seeds.                    *)
(* GAMMA.sample(rng).exp() is a float in the code; here it is a whole       *)
(* number of seconds derived from one step of the generator, and per_second *)
(* is kept as the exact fraction psNum / psDen, so that                     *)
(* `(age * per_second) as u64` is an integer division.                      *)
(*                                                                          *)
(* Besides the call (Spec), three smaller machines share the module: fn     *)
(* offset applied to a slice (OffsetSpec), lines 51-56 of select_n applied  *)
(* to one offset and one draw (SamplerSpec), and the tributary DKG of       *)
(* coordinator/src/tests/tributary/dkg.rs (DkgSpec).  Each leaves the       *)
(* variables of the others at rest.                                         *)
(***************************************************************************)
EXTENDS Integers, Sequences, FiniteSets, TLC

\* ------------------------------------------------------------ constants
LOCK_WINDOW == 10
MATURITY == 60
RECENT_WINDOW == 15
BLOCK_TIME == 120
BLOCKS_PER_YEAR == (365 * 24 * 60 * 60) \div BLOCK_TIME
TIP_APPLICATION == LOCK_WINDOW * BLOCK_TIME
RING_LEN == 11
DECOYS == RING_LEN - 1
\* `if high > 500` of Decoys::select
SANITY_HIGH == 500

\* ------------------------------------------------------------ bounds
\* Largest number of inputs of one select call.
MaxInputs == 2
\* The random source continues from one of MaxSeed + 1 seeds.
MaxSeed == 5
\* The random source returns values in 0 .. RngMod - 1.
RngMod == 256
\* GAMMA.sample(rng).exp() is a multiple of AgeStep seconds.
AgeStep == 14

\* ------------------------------------------------------------ helpers
At(s, i) == s[i + 1]

Min(a, b) == IF a < b THEN a ELSE b

SaturatingSub(a, b) == IF a >= b THEN a - b ELSE 0

Range(s) == {s[j] : j \in 1 .. Len(s)}

Indices(s) == {s[j].idx : j \in 1 .. Len(s)}

\* slice::partition_point on a slice partitioned by `pred`: the number of
\* leading elements that satisfy it, here for the predicate |e| *e < x.
PartitionPoint(s, x) == Cardinality({j \in 1 .. Len(s) : s[j] < x})

\* ring.partition_point(|x| x.0 < o.0)
RingPartitionPoint(r, idx) == Cardinality({j \in 1 .. Len(r) : r[j].idx < idx})

RECURSIVE InsertSorted(_, _)
InsertSorted(s, e) ==
  IF s = <<>> THEN <<e>>
  ELSE IF s[Len(s)].idx <= e.idx THEN Append(s, e)
  ELSE Append(InsertSorted(SubSeq(s, 1, Len(s) - 1), e), s[Len(s)])

RECURSIVE SortPrefix(_, _)
SortPrefix(s, n) ==
  IF n = 0 THEN <<>> ELSE InsertSorted(SortPrefix(s, n - 1), s[n])

\* ring.sort_by(|a, b| a.0.cmp(&b.0)): a stable sort by absolute index
SortByIndex(s) == SortPrefix(s, Len(s))

\* Mutant of Offset: every later entry is taken from the first index.
OffsetFromFirst(ring) ==
  [m \in 1 .. Len(ring) |-> IF m = 1 THEN ring[1] ELSE ring[m] - ring[1]]

\* fn offset(ring: &[u64]) -> Vec<u64>
Offset(ring) ==
  [m \in 1 .. Len(ring) |-> IF m = 1 THEN ring[1] ELSE ring[m] - ring[m - 1]]

\* The chains a call may run against: the cumulative output distribution
\* get_output_distribution serves.
Distributions ==
  { <<200, 200, 250, 300, 320, 334, 400, 450, 480, 490, 495, 501>>,
    <<10, 40, 60, 90, 100>>,
    <<50, 60, 75>>,
    <<60, 64, 71>>,
    <<3, 10>> }

High(dist) == dist[Len(dist)]

\* The absolute indices get_o_indexes may name for a real input of a chain:
\* one of block 0, one a third into the later blocks and one near the tip.
RealChoices(dist) ==
  {dist[1] \div 2, dist[1] + ((High(dist) - dist[1]) \div 3), High(dist) - 2}

InputVectors(dist) ==
  UNION {[1 .. n -> RealChoices(dist)] : n \in 0 .. MaxInputs}

\* [input.key, input.commitment.calculate()] of the j-th input
RealData(j) == <<"input", j>>

\* What get_outputs holds for an index that resolves.
ChainData(idx) == <<"chain", idx>>

\* (high - MATURITY) < limit on u64.  With overflow checks off the
\* subtraction wraps: for high < MATURITY the difference is
\* 2^64 - (MATURITY - high), above any limit a usize product of the input
\* count reaches, so the comparison is false.
WrappingSubLess(high, limit) ==
  IF high >= MATURITY THEN high - MATURITY < limit ELSE FALSE

\* Mutant of TargetMedian: the median is held to half of high only.
TargetMedianHalf(h) == h \div 2

\* let target_median = high * 2 / 3;
TargetMedian(h) == (h * 2) \div 3

\* rng.next_u64(): the generator's next state, which is also the value
NextRng(s) == (s + 3) % RngMod

\* The states the random source may be in when select_n borrows it.
Seeds == {(k * RngMod) \div (MaxSeed + 1) : k \in 0 .. MaxSeed}

\* GAMMA.sample(rng).exp(), in whole seconds, from one step of the generator
GammaAge(x) == x * AgeStep

\* Mutant of Fresh: the sampler pushes a candidate whether used or not.
FreshAlways(u, o) == TRUE

\* if !used.contains(&o)
Fresh(u, o) == o \notin u

\* Mutant of Accepts: an offset equal to high is taken too.
AcceptsUpTo(o, h) == o <= h

\* if o < high
Accepts(o, h) == o < h

\* No offset taken.
NoPick == [taken |-> FALSE, drawn |-> FALSE, t |-> 0, i |-> 0, c |-> 0]

\* Lines 51-56 for one offset o and one value x of rng.next_u64(): whether
\* the offset was taken, the target index t = high - 1 - o, the block i the
\* search names for it, and the candidate c drawn when that block holds
\* outputs.
Pick(dist, h, o, x) ==
  IF Accepts(o, h)
    THEN LET t == h - 1 - o
             i == PartitionPoint(dist, t)
             prev == SaturatingSub(i, 1)
             n == At(dist, i) - At(dist, prev)
         IN  [ taken |-> TRUE, drawn |-> n # 0, t |-> t, i |-> i,
               c |-> IF n # 0 THEN At(dist, prev) + (x % n) ELSE 0 ]
    ELSE NoPick

\* Mutant of Marked: a candidate pushed is not recorded in used.
MarkedNever(u, cand) == u

\* used.insert(o), for the candidate pushed if any
Marked(u, cand) == u \cup Range(cand)

\* One iteration of `while candidates.len() != remaining`: the generator's
\* state after it, the candidate it pushed, if any, and what lines 51-56 did.
SampleOnce(r, dist, h, pn, pd, u) ==
  LET x1 == NextRng(r)
      gamma == GammaAge(x1)
      tip == gamma > TIP_APPLICATION
      x2 == IF tip THEN x1 ELSE NextRng(x1)
      age == IF tip THEN gamma - TIP_APPLICATION
                    ELSE x2 % (RECENT_WINDOW * BLOCK_TIME)
      o == (age * pn) \div pd
      x3 == NextRng(x2)
      p == Pick(dist, h, o, x3)
  IN  IF p.drawn
        THEN [rng |-> x3, cand |-> IF Fresh(u, p.c) THEN <<p.c>> ELSE <<>>, pick |-> p]
        ELSE [rng |-> x2, cand |-> <<>>, pick |-> p]

\* Mutant of SelectNDone: select_n returns after its first batch.
SelectNDoneOnce(conf, cnt) == TRUE

\* the exit of `while confirmed.len() != count`
SelectNDone(conf, cnt) == Len(conf) = cnt

\* get_outputs: Some(data) for an index that resolves, None otherwise
Resolves(every, idx) == every = 0 \/ idx % every # 0

\* Mutant of Confirm: every candidate is kept, resolved or not.
ConfirmAll(every, cands) ==
  [m \in 1 .. Len(cands) |-> [idx |-> cands[m], data |-> ChainData(cands[m])]]

RECURSIVE Confirm(_, _)
\* for i in 0 .. outputs.len() { if let Some(output) = outputs[i] { push } }
Confirm(every, cands) ==
  IF cands = <<>> THEN <<>>
  ELSE LET rest == Confirm(every, Tail(cands))
       IN  IF Resolves(every, Head(cands))
             THEN <<[idx |-> Head(cands), data |-> ChainData(Head(cands))]>> \o rest
             ELSE rest

\* Mutant of LeftInPool: the ring is copied from the pool, not drained.
LeftInPoolKept(pool) == pool

\* Mutant of Drained: the ring takes the pool's first DECOYS entries.
DrainedFront(pool) == SubSeq(pool, 1, DECOYS)

\* decoys.drain((decoys.len() - DECOYS) ..): what is taken, what is left
Drained(pool) == SubSeq(pool, Len(pool) - DECOYS + 1, Len(pool))
LeftInPool(pool) == SubSeq(pool, 1, Len(pool) - DECOYS)

\* Mutant of NeedsRepair: the median is held to the target at any high.
NeedsRepairAnyHeight(h, r) == At(r, RING_LEN \div 2).idx < TargetMedian(h)

\* while ring[RING_LEN / 2].0 < target_median, under `if high > 500`
NeedsRepair(h, r) ==
  h > SANITY_HIGH /\ At(r, RING_LEN \div 2).idx < TargetMedian(h)

\* Mutant of RemovedHalf: the drain takes the median too.
RemovedHalfSix(r) == SubSeq(r, 1, (RING_LEN \div 2) + 1)

\* Mutant of KeptHalf: the ring keeps its low end.
KeptHalfLow(r) == SubSeq(r, 1, Len(r) - (RING_LEN \div 2))

\* ring.drain(0 .. (RING_LEN / 2))
RemovedHalf(r) == SubSeq(r, 1, RING_LEN \div 2)
KeptHalf(r) == SubSeq(r, (RING_LEN \div 2) + 1, Len(r))

\* Mutant of Reinserted: a drained real spend is not pushed back.
ReinsertedNever(removed, o) == <<>>

RECURSIVE Reinserted(_, _)
\* if removed.0 == o.0 { ring.push(o) }, over the removed in order
Reinserted(removed, o) ==
  IF removed = <<>> THEN <<>>
  ELSE (IF Head(removed).idx = o.idx THEN <<o>> ELSE <<>>)
         \o Reinserted(Tail(removed), o)

\* Mutant of Released: every drained index is released, the real one too.
ReleasedAll(u, removed, o) == u \ Indices(removed)

\* else { used.remove(&removed.0) }, over the removed
Released(u, removed, o) ==
  u \ {removed[j].idx : j \in {m \in 1 .. Len(removed) : removed[m].idx # o.idx}}

\* Mutant of ReplacementCount: as many replacements as were drained.
ReplacementCountDrained(r) == RING_LEN \div 2

\* RING_LEN - ring.len(), the count of the replacement select_n
ReplacementCount(r) == RING_LEN - Len(r)

\* Decoys { i, offsets, ring }
MakeDecoys(r, o) ==
  [ i |-> RingPartitionPoint(r, o.idx),
    offsets |-> Offset([m \in 1 .. Len(r) |-> r[m].idx]),
    ring |-> [m \in 1 .. Len(r) |-> r[m].data] ]

\* Mutant of Pushed: the Decoys is put in front.
PushedFront(rs, d) == <<d>> \o rs

\* res.push(..)
Pushed(rs, d) == Append(rs, d)

\* ------------------------------------------------------------ state
VARIABLES
  pc,           \* position of the call
  inputs,       \* per input, the absolute index get_o_indexes names for it
  chain,        \* the distribution get_output_distribution serves
  lockedEvery,  \* get_outputs: 0, or every lockedEvery-th index is None
  rng,          \* state of the random source
  outputs,      \* select: outputs
  distribution, \* select: distribution
  high,         \* select: high
  psNum, psDen, \* select: per_second = psNum / psDen
  used,         \* select: used
  decoys,       \* select: decoys, the pool
  cur,          \* select: position (1-based) of `o` in `for o in outputs`
  ring,         \* select: ring
  res,          \* select: res
  result,       \* what select returned
  caller,       \* select_n: who awaits it, "pool" or "repair"
  count,        \* select_n: count
  confirmed,    \* select_n: confirmed
  candidates,   \* select_n: candidates
  sampled,      \* history: a sampler iteration has run
  lookedUp,     \* history: get_outputs has been called
  failed,       \* history: "none", or the lookup that failed
  afterFailure, \* history: lookup calls made after the failed one
  selEntryUsed, \* history: used when the running select_n was entered
  selBatches,   \* history: <<batch length, outstanding>> per get_outputs call
  selResolved,  \* history: indices get_outputs resolved in this select_n
  selRet,       \* history: <<>> or the last return of select_n
  ringLog,      \* history: per ring begun, its repair iterations (2: two or
                \* more), whether one of them drained the real spend, the
                \* replacement counts they asked select_n for, the group it
                \* drained from the pool, and the median it had when its
                \* latest repair iteration began
  everReleased, \* history: the indices repair has removed from used
  everUnresolved, \* history: the indices get_outputs was asked for and
                \* answered None
  selCalls,     \* history: select_n calls made (2: two or more)
  pooled,       \* history: what the pool's select_n returned
  lastPick,     \* history: what lines 51-56 did in the sampler iteration
                \* that has just run
  slice,        \* offset: the ring it is called on
  offsets,      \* offset: <<>> or the Vec it returned
  pickDist,     \* lines 51-56 alone: distribution
  pickOffset,   \* lines 51-56 alone: o
  pickValue,    \* lines 51-56 alone: the value of rng.next_u64()
  picked,       \* lines 51-56 alone: <<>> or what they did
  published,    \* dkg: the validators whose DkgCommitments was added
  mempool,      \* dkg: the transactions added and in no block yet
  tributary,    \* dkg: the tributary's blocks after genesis, each the
                \* sequence of its transactions
  scanKey,      \* dkg: the validator whose key the scanner runs for
  scanLast,     \* dkg: last_block of the scanner, as a count of blocks
  scanDb,       \* dkg: scanner_db, the commitments recorded per signer
  processor,    \* dkg: the MemProcessor's queue
  scanRuns      \* dkg history: handle_new_blocks calls made (2: two or more)

decoyVars ==
  << pc, inputs, chain, lockedEvery, rng, outputs, distribution, high, psNum,
     psDen, used, decoys, cur, ring, res, result, caller, count, confirmed,
     candidates, sampled, lookedUp, failed, afterFailure, selEntryUsed,
     selBatches, selResolved, selRet, ringLog, everReleased, everUnresolved,
     selCalls, pooled, lastPick >>

offsetVars == << slice, offsets >>
pickVars == << pickDist, pickOffset, pickValue, picked >>
dkgVars == << published, mempool, tributary, scanKey, scanLast, scanDb, processor, scanRuns >>

vars == << decoyVars, offsetVars, pickVars, dkgVars >>

callVars == << inputs, chain, lockedEvery >>
selectVars == << outputs, distribution, high, psNum, psDen, used, decoys, cur, ring, res >>
selectNVars == << caller, count, confirmed, candidates >>
selHistory == << selEntryUsed, selBatches, selResolved, selRet, selCalls >>
rpcHistory == << lookedUp, failed, afterFailure >>
ringHistory == << ringLog, everReleased >>
callHistory == << everUnresolved, pooled >>

\* A lookup call is made: one more after a failure, if one has failed.
LookupCalled == afterFailure' = IF failed = "none" THEN 0 ELSE afterFailure + 1

Pending == [tag |-> "pending", decoys |-> <<>>]

\* offset is not being called.
OffsetIdle == slice = <<>> /\ offsets = <<>>

\* Lines 51-56 are not being run alone.
PickIdle == pickDist = <<>> /\ pickOffset = 0 /\ pickValue = 0 /\ picked = <<>>

\* No tributary runs.
DkgIdle ==
  /\ published = {}
  /\ mempool = {}
  /\ tributary = <<>>
  /\ scanKey = 0
  /\ scanLast = 0
  /\ scanDb = {}
  /\ processor = <<>>
  /\ scanRuns = 0

\* The locals and histories of a select call that has not run yet.
NothingSelected ==
  /\ rng = 0
  /\ outputs = <<>>
  /\ distribution = <<>>
  /\ high = 0
  /\ psNum = 0
  /\ psDen = 1
  /\ used = {}
  /\ decoys = <<>>
  /\ cur = 0
  /\ ring = <<>>
  /\ res = <<>>
  /\ result = Pending
  /\ caller = "none"
  /\ count = 0
  /\ confirmed = <<>>
  /\ candidates = <<>>
  /\ sampled = FALSE
  /\ lookedUp = FALSE
  /\ failed = "none"
  /\ afterFailure = 0
  /\ selEntryUsed = {}
  /\ selBatches = <<>>
  /\ selResolved = {}
  /\ selRet = <<>>
  /\ ringLog = <<>>
  /\ everReleased = {}
  /\ everUnresolved = {}
  /\ selCalls = 0
  /\ pooled = <<>>
  /\ lastPick = NoPick

\* No select call is made.
DecoysIdle ==
  /\ chain = <<>>
  /\ inputs = <<>>
  /\ lockedEvery = 0
  /\ pc = "idle"
  /\ NothingSelected

Init ==
  /\ chain \in Distributions
  /\ inputs \in InputVectors(chain)
  /\ lockedEvery \in {0, 3}
  /\ pc = IF inputs = <<>> THEN "get_output_distribution" ELSE "get_o_indexes"
  /\ NothingSelected
  /\ OffsetIdle
  /\ PickIdle
  /\ DkgIdle

\* Mutant of RpcFailure: the failed lookup is made again.
RpcFailureRetried(lookup) ==
  /\ pc' = pc
  /\ result' = result
  /\ failed' = lookup
  /\ LookupCalled

\* `?` on a failed lookup: select returns Err(RpcError) and runs no further.
RpcFailure(lookup) ==
  /\ pc' = "error"
  /\ result' = [tag |-> "Err", decoys |-> <<>>]
  /\ failed' = lookup
  /\ LookupCalled

\* rpc.get_o_indexes(input.tx).await?[usize::from(input.o)] for the next input
GetOIndexes ==
  /\ pc = "get_o_indexes"
  /\ UNCHANGED << callHistory, lastPick, offsetVars, pickVars, dkgVars >>
  /\ \/ /\ RpcFailure("get_o_indexes")
        /\ UNCHANGED << callVars, rng, selectVars, selectNVars, sampled, lookedUp,
                        selHistory, ringHistory >>
     \/ LET j == Len(outputs) + 1 IN
        /\ outputs' = Append(outputs, [idx |-> inputs[j], data |-> RealData(j)])
        /\ pc' = IF j = Len(inputs) THEN "get_output_distribution" ELSE "get_o_indexes"
        /\ LookupCalled
        /\ UNCHANGED << callVars, rng, distribution, high, psNum, psDen, used, decoys,
                        cur, ring, res, result, selectNVars, sampled, lookedUp, failed,
                        selHistory, ringHistory >>

\* select_n is entered: `let mut confirmed = Vec::with_capacity(count)`
EnterSelectN(n, who, u) ==
  /\ pc' = "select_n"
  /\ rng' \in Seeds
  /\ caller' = who
  /\ count' = n
  /\ confirmed' = <<>>
  /\ candidates' = <<>>
  /\ selEntryUsed' = u
  /\ selBatches' = <<>>
  /\ selResolved' = {}
  /\ selRet' = selRet
  /\ selCalls' = IF selCalls < 2 THEN selCalls + 1 ELSE 2

\* `if (high - MATURITY) < u64::try_from(inputs.len() * RING_LEN).unwrap()`
NotEnoughDecoys(h, n) == WrappingSubLess(h, n * RING_LEN)

\* rpc.get_output_distribution(height).await?, then everything up to the
\* first sampler iteration: high, per_second, the seeding of used, the guard
\* and the entry of the pool's select_n.
GetOutputDistribution ==
  /\ pc = "get_output_distribution"
  /\ UNCHANGED << callHistory, lastPick, offsetVars, pickVars, dkgVars >>
  /\ \/ /\ RpcFailure("get_output_distribution")
        /\ UNCHANGED << callVars, rng, selectVars, selectNVars, sampled, lookedUp,
                        selHistory, ringHistory >>
     \/ LET dist == chain
            h == At(dist, Len(dist) - 1)
            blocks == Min(Len(dist), BLOCKS_PER_YEAR)
            outs == h - At(dist, SaturatingSub(Len(dist), blocks + 1))
            seeded == Indices(outputs)
        IN
        /\ LookupCalled
        /\ distribution' = dist
        /\ high' = h
        /\ psNum' = outs
        /\ psDen' = blocks * BLOCK_TIME
        /\ used' = seeded
        /\ UNCHANGED << callVars, outputs, decoys, cur, ring, res, sampled, lookedUp,
                        failed, ringHistory >>
        /\ \/ \* high < MATURITY with overflow checks on: the subtraction panics
              /\ h < MATURITY
              /\ pc' = "panic_overflow"
              /\ result' = [tag |-> "panic: attempt to subtract with overflow", decoys |-> <<>>]
              /\ UNCHANGED << rng, selectNVars, selHistory >>
           \/ \* panic!("Not enough decoys available")
              /\ NotEnoughDecoys(h, Len(inputs))
              /\ pc' = "panic"
              /\ result' = [tag |-> "panic: Not enough decoys available", decoys |-> <<>>]
              /\ UNCHANGED << rng, selectNVars, selHistory >>
           \/ \* select_n(.., inputs.len() * DECOYS) with no input: Ok(vec![]) at once
              /\ ~NotEnoughDecoys(h, Len(inputs))
              /\ Len(inputs) = 0
              /\ pc' = "done"
              /\ result' = [tag |-> "Ok", decoys |-> <<>>]
              /\ UNCHANGED << rng, selectNVars, selHistory >>
           \/ /\ ~NotEnoughDecoys(h, Len(inputs))
              /\ Len(inputs) # 0
              /\ EnterSelectN(Len(inputs) * DECOYS, "pool", seeded)
              /\ result' = result

\* One iteration of the sampling loop of select_n (lines 40-64).
Sample ==
  /\ pc = "select_n"
  /\ Len(candidates) # count - Len(confirmed)
  /\ LET s == SampleOnce(rng, distribution, high, psNum, psDen, used) IN
     /\ rng' = s.rng
     /\ used' = Marked(used, s.cand)
     /\ candidates' = candidates \o s.cand
     /\ lastPick' = s.pick
  /\ sampled' = TRUE
  /\ UNCHANGED << callHistory, offsetVars, pickVars, dkgVars >>
  /\ UNCHANGED << pc, callVars, outputs, distribution, high, psNum, psDen, decoys, cur,
                  ring, res, result, caller, count, confirmed, rpcHistory, selHistory,
                  ringHistory >>

\* rpc.get_outputs(&candidates, height).await? and the rest of the outer
\* loop's iteration; when confirmed is full, select_n returns and its caller
\* runs on: the pool is kept, or the ring is extended and sorted again.
GetOutputs ==
  /\ pc = "select_n"
  /\ Len(candidates) = count - Len(confirmed)
  /\ lookedUp' = TRUE
  /\ lastPick' = NoPick
  /\ UNCHANGED << ringHistory, offsetVars, pickVars, dkgVars >>
  /\ \/ /\ RpcFailure("get_outputs")
        /\ UNCHANGED << callVars, rng, selectVars, selectNVars, sampled, selHistory,
                        callHistory >>
     \/ LET got == Confirm(lockedEvery, candidates)
            conf == confirmed \o got
            batches == Append(selBatches, <<Len(candidates), count - Len(confirmed)>>)
            resolved == selResolved \cup {c \in Range(candidates) : Resolves(lockedEvery, c)}
        IN
        /\ LookupCalled
        /\ selBatches' = batches
        /\ selResolved' = resolved
        /\ confirmed' = conf
        /\ candidates' = <<>>
        /\ everUnresolved' =
             everUnresolved \cup {c \in Range(candidates) : ~Resolves(lockedEvery, c)}
        /\ UNCHANGED << callVars, rng, outputs, distribution, high, psNum, psDen, used,
                        cur, res, result, caller, count, sampled, failed, selEntryUsed,
                        selCalls >>
        /\ \/ /\ ~SelectNDone(conf, count)
              /\ UNCHANGED << pc, decoys, ring, selRet, pooled >>
           \/ /\ SelectNDone(conf, count)
              /\ selRet' = << [ count |-> count, records |-> conf, entryUsed |-> selEntryUsed,
                                batches |-> batches, resolved |-> resolved ] >>
              /\ \/ /\ caller = "pool"
                    /\ decoys' = conf
                    /\ pooled' = conf
                    /\ pc' = "for_outputs"
                    /\ ring' = ring
                 \/ /\ caller = "repair"
                    /\ ring' = SortByIndex(ring \o conf)
                    /\ pc' = "sanity"
                    /\ decoys' = decoys
                    /\ pooled' = pooled

\* `for o in outputs`: the next output's ring is drained from the pool, the
\* real output pushed and the ring sorted (lines 147-151).
Assemble ==
  /\ pc = "for_outputs"
  /\ cur' = cur + 1
  /\ ring' = SortByIndex(Append(Drained(decoys), outputs[cur + 1]))
  /\ decoys' = LeftInPool(decoys)
  /\ pc' = "sanity"
  /\ ringLog' = Append(ringLog, [ repairs |-> 0, realDrained |-> FALSE, asked |-> {},
                                   group |-> Drained(decoys), prevMedian |-> 0 ])
  /\ UNCHANGED << callVars, rng, outputs, distribution, high, psNum, psDen, used, res,
                  result, selectNVars, sampled, rpcHistory, selHistory, everReleased,
                  callHistory, lastPick, offsetVars,
                  pickVars, dkgVars >>

\* One iteration of the freshness-repair loop up to its select_n call
\* (lines 167-183): the bottom half is drained, the real spend pushed back,
\* the other removed indices released.
Repair ==
  /\ pc = "sanity"
  /\ NeedsRepair(high, ring)
  /\ LET o == outputs[cur]
         removed == RemovedHalf(ring)
         kept == KeptHalf(ring) \o Reinserted(removed, o)
         u == Released(used, removed, o)
     IN
     /\ ring' = kept
     /\ used' = u
     /\ EnterSelectN(ReplacementCount(kept), "repair", u)
     /\ everReleased' = everReleased \cup (used \ u)
     /\ ringLog' = [ringLog EXCEPT ![cur] =
                      [ repairs |-> IF @.repairs < 2 THEN @.repairs + 1 ELSE 2,
                        realDrained |-> @.realDrained \/ o.idx \in Indices(removed),
                        asked |-> @.asked \cup {ReplacementCount(kept)},
                        group |-> @.group,
                        prevMedian |-> At(ring, RING_LEN \div 2).idx ]]
  /\ UNCHANGED << callVars, outputs, distribution, high, psNum, psDen, decoys, cur,
                  res, result, sampled, rpcHistory, callHistory, lastPick, offsetVars,
                  pickVars, dkgVars >>

\* res.push(Decoys { .. }), and Ok(res) after the last output (lines 191-199).
Emit ==
  /\ pc = "sanity"
  /\ ~NeedsRepair(high, ring)
  /\ LET rs == Pushed(res, MakeDecoys(ring, outputs[cur])) IN
     /\ res' = rs
     /\ \/ /\ cur = Len(outputs)
           /\ pc' = "done"
           /\ result' = [tag |-> "Ok", decoys |-> rs]
        \/ /\ cur # Len(outputs)
           /\ pc' = "for_outputs"
           /\ result' = result
  /\ UNCHANGED << callVars, rng, outputs, distribution, high, psNum, psDen, used, decoys,
                  cur, ring, selectNVars, sampled, rpcHistory, selHistory, ringHistory,
                  callHistory, lastPick, offsetVars,
                  pickVars, dkgVars >>

Next ==
  \/ GetOIndexes
  \/ GetOutputDistribution
  \/ Sample
  \/ GetOutputs
  \/ Assemble
  \/ Repair
  \/ Emit

Spec == Init /\ [][Next]_vars

\* ------------------------------------------------------------ offset
\* Largest absolute index of a slice offset is applied to.
MaxIndex == 13

RECURSIVE Ascending(_)
\* The members of a set of indices in ascending order.
Ascending(S) ==
  IF S = {} THEN <<>>
  ELSE LET least == CHOOSE a \in S : \A b \in S : a <= b
       IN  <<least>> \o Ascending(S \ {least})

\* The sorted rings offset may be called on: up to RING_LEN distinct indices.
Slices ==
  {Ascending(S) : S \in {T \in SUBSET (0 .. MaxIndex) : Cardinality(T) \in 1 .. RING_LEN}}

OffsetInit ==
  /\ slice \in Slices
  /\ offsets = <<>>
  /\ DecoysIdle
  /\ PickIdle
  /\ DkgIdle

\* offset(&ring)
CallOffset ==
  /\ offsets = <<>>
  /\ offsets' = Offset(slice)
  /\ UNCHANGED << slice, decoyVars, pickVars, dkgVars >>

OffsetNext == CallOffset

OffsetSpec == OffsetInit /\ [][OffsetNext]_vars

\* ------------------------------------------------------------ lines 51-56
\* Longest distribution, largest cumulative count and largest value of
\* rng.next_u64() lines 51-56 are run on alone.
MaxHeights == 3
MaxOutputs == 4
MaxValue == 3

\* Non-decreasing cumulative counts with one output or more.
SmallDistributions ==
  UNION { {d \in [1 .. n -> 0 .. MaxOutputs] :
             /\ \A a \in 1 .. (n - 1) : d[a] <= d[a + 1]
             /\ d[n] >= 1} : n \in 1 .. MaxHeights }

SamplerInit ==
  /\ pickDist \in Distributions \cup SmallDistributions
  /\ pickOffset \in 0 .. (High(pickDist) + 1)
  /\ pickValue \in 0 .. MaxValue
  /\ picked = <<>>
  /\ DecoysIdle
  /\ OffsetIdle
  /\ DkgIdle

\* if o < high { .. candidates.push(o) .. }, up to the used check
PickCandidate ==
  /\ picked = <<>>
  /\ picked' = <<Pick(pickDist, High(pickDist), pickOffset, pickValue)>>
  /\ UNCHANGED << pickDist, pickOffset, pickValue, decoyVars, offsetVars, dkgVars >>

SamplerNext == PickCandidate

SamplerSpec == SamplerInit /\ [][SamplerNext]_vars

\* ------------------------------------------------------------ tributary DKG
\* Validators of the tributary, and the blocks it produces after genesis.
NumValidators == 3
MaxBlocks == 4

\* `let attempt = 0;`
ATTEMPT == 0

\* The position i of a key in `keys`, as in `txs.iter().enumerate()`.
Validators == 0 .. (NumValidators - 1)

\* Participant::new((i + 1).try_into().unwrap()).unwrap()
ParticipantOf(i) == i + 1

\* `commitments` of the i-th key: 256 random bytes
CommitmentsOf(i) == <<"commitments", i>>

\* Transaction::DkgCommitments(attempt, commitments, Signed { signer, .. })
DkgCommitments(i) ==
  [attempt |-> ATTEMPT, commitments |-> CommitmentsOf(i), signer |-> i]

\* KeyGenId { set: spec.set(), attempt }
KeyGenId(attempt) == [set |-> "spec.set()", attempt |-> attempt]

\* expected_msg
ExpectedMsg ==
  [ id |-> KeyGenId(0),
    commitments |->
      [q \in {ParticipantOf(i) : i \in Validators} |->
         LET i == CHOOSE v \in Validators : ParticipantOf(v) = q
         IN  DkgCommitments(i).commitments] ]

\* spec.i(signer): the Participant of a validator of the spec
SpecI(signer) == signer + 1

\* Mutant of DkgComplete: the commitments of all validators but one suffice.
DkgCompleteEarly(db) == Cardinality(db) >= NumValidators - 1

\* The scanner has recorded the commitments of spec.n() validators.
DkgComplete(db) == Cardinality(db) = NumValidators

\* CoordinatorMessage::KeyGen(Commitments { id, commitments }) as the scanner
\* builds it from what it recorded
KeyGenCommitments(db) ==
  [ id |-> KeyGenId(ATTEMPT),
    commitments |->
      [q \in {SpecI(e.signer) : e \in db} |->
         (CHOOSE e \in db : SpecI(e.signer) = q).commitments] ]

RECURSIVE HandleBlock(_, _)
\* The scanner on the transactions of one block, in order: each
\* DkgCommitments is recorded under its signer, and the message is sent when
\* the record is complete.
HandleBlock(st, txs) ==
  IF txs = <<>> THEN st
  ELSE LET tx == Head(txs)
           db == st.db \cup {[signer |-> tx.signer, commitments |-> tx.commitments]}
           sent == IF DkgComplete(db) THEN Append(st.sent, KeyGenCommitments(db))
                                      ELSE st.sent
       IN  HandleBlock([db |-> db, sent |-> sent], Tail(txs))

RECURSIVE HandleBlocks(_, _, _)
\* The scanner on the blocks chainBlocks[from ..], in order.
HandleBlocks(st, chainBlocks, from) ==
  IF from > Len(chainBlocks) THEN st
  ELSE HandleBlocks(HandleBlock(st, chainBlocks[from]), chainBlocks, from + 1)

\* The transactions of a block, ordered by signer.
BlockOf(txs) ==
  LET signers == Ascending({tx.signer : tx \in txs})
  IN  [m \in 1 .. Len(signers) |-> DkgCommitments(signers[m])]

DkgInit ==
  /\ published = {}
  /\ mempool = {}
  /\ tributary = <<>>
  /\ scanKey \in Validators
  /\ scanLast = 0
  /\ scanDb = {}
  /\ processor = <<>>
  /\ scanRuns = 0
  /\ DecoysIdle
  /\ OffsetIdle
  /\ PickIdle

\* tributaries[i].1.add_transaction(tx.clone())
AddTransaction(i) ==
  /\ i \notin published
  /\ published' = published \cup {i}
  /\ mempool' = mempool \cup {DkgCommitments(i)}
  /\ UNCHANGED << tributary, scanKey, scanLast, scanDb, processor, scanRuns, decoyVars,
                  offsetVars, pickVars >>

\* The tributary adds a block holding any of the transactions not yet in one.
ProduceBlock ==
  /\ Len(tributary) < MaxBlocks
  /\ \E txs \in SUBSET mempool :
       /\ tributary' = Append(tributary, BlockOf(txs))
       /\ mempool' = mempool \ txs
  /\ UNCHANGED << published, scanKey, scanLast, scanDb, processor, scanRuns, decoyVars,
                  offsetVars, pickVars >>

\* handle_new_blocks(&mut scanner_db, key, &mut processor, spec, tributary,
\* &mut last_block) with blocks after last_block
HandleNewBlocks ==
  /\ scanLast < Len(tributary)
  /\ LET st == HandleBlocks([db |-> scanDb, sent |-> processor], tributary, scanLast + 1) IN
     /\ scanDb' = st.db
     /\ processor' = st.sent
  /\ scanLast' = Len(tributary)
  /\ scanRuns' = IF scanRuns < 2 THEN scanRuns + 1 ELSE 2
  /\ UNCHANGED << published, mempool, tributary, scanKey, decoyVars, offsetVars, pickVars >>

DkgNext ==
  \/ \E i \in Validators : AddTransaction(i)
  \/ ProduceBlock
  \/ HandleNewBlocks

DkgSpec == DkgInit /\ [][DkgNext]_vars

\* ------------------------------------------------------------ claims
RECURSIVE SumTo(_, _)
SumTo(offs, m) == IF m = 0 THEN 0 ELSE SumTo(offs, m - 1) + offs[m]

\* The absolute indices a reader of a Decoys reconstructs from its offsets.
PrefixSums(offs) == [m \in 1 .. Len(offs) |-> SumTo(offs, m)]

StrictlyAscending(s) == \A a, b \in 1 .. Len(s) : a < b => s[a] < s[b]

\* select has returned Ok(res).
Returned == result.tag = "Ok"

\* The decoy indices of the j-th Decoys pushed: its ring without the member
\* at the real-spend position.
DecoyIndices(j) ==
  LET abs == PrefixSums(res[j].offsets)
  IN  {abs[m] : m \in (1 .. Len(abs)) \ {res[j].i + 1}}

\* C1: the absolute indices of every ring pushed or returned, rebuilt by
\* prefix-summing its offsets, are strictly ascending (so pairwise distinct).
C1_RingStrictlyAscending ==
  \A j \in 1 .. Len(res) :
    /\ StrictlyAscending(PrefixSums(res[j].offsets))
    /\ \A m \in 2 .. Len(res[j].offsets) : res[j].offsets[m] > 0

\* C1 witness: a call returned a ring that took two or more repair
\* iterations, from a chain on which get_outputs drops some candidates.
C1_Witness ==
  /\ Returned
  /\ lockedEvery # 0
  /\ \E j \in 1 .. Len(res) : ringLog[j].repairs = 2

\* C2: d.i is the position of the real spend in the sorted ring: the member
\* there has the real spend's index and data, and no other member has its
\* index.
C2_RealSpendPosition ==
  \A j \in 1 .. Len(res) :
    LET d == res[j]
        abs == PrefixSums(d.offsets)
    IN  /\ d.i + 1 \in 1 .. Len(abs)
        /\ abs[d.i + 1] = outputs[j].idx
        /\ d.ring[d.i + 1] = outputs[j].data
        /\ Cardinality({m \in 1 .. Len(abs) : abs[m] = outputs[j].idx}) = 1

\* C2 witness: a returned ring whose real spend was drained by a repair
\* iteration and pushed back, and does not sit at position 0.
C2_Witness ==
  /\ Returned
  /\ \E j \in 1 .. Len(res) : ringLog[j].realDrained /\ res[j].i > 0

\* C3: with high > 500, the member at position RING_LEN / 2 of every ring
\* pushed has an absolute index >= high * 2 / 3.
C3_MedianIsFresh ==
  high > 500 =>
    \A j \in 1 .. Len(res) :
      At(PrefixSums(res[j].offsets), RING_LEN \div 2) >= (high * 2) \div 3

\* C3 witness: two rings returned on a chain with high > 500, the first
\* pushed without repair needs, the second after repair.
C3_Witness ==
  /\ Returned
  /\ high > 500
  /\ Len(res) = 2
  /\ ringLog[1].repairs = 0
  /\ ringLog[2].repairs > 0

\* C4 (as claimed, for a call with at least one input): once the
\* distribution is known, if high - 60 < n * 11 as integers the call has
\* stopped with a fatal panic, no candidate was sampled and get_outputs was
\* never called.  It fails for high < 60 when the subtraction wraps.
C4_GuardStopsBeforeSampling ==
  (/\ distribution # <<>>
   /\ Len(inputs) > 0
   /\ high - MATURITY < Len(inputs) * RING_LEN) =>
    /\ pc \in {"panic", "panic_overflow"}
    /\ ~sampled
    /\ ~lookedUp

\* C5: the ring has RING_LEN members whenever the freshness condition is
\* evaluated, and every Decoys pushed has RING_LEN offsets and ring entries.
C5_RingLength ==
  /\ pc = "sanity" => Len(ring) = RING_LEN
  /\ \A j \in 1 .. Len(res) :
       Len(res[j].offsets) = RING_LEN /\ Len(res[j].ring) = RING_LEN

\* C5 witness: the freshness condition is evaluated again after repair
\* iterations of the call have asked for 5 replacements (real spend kept)
\* and for 4 (real spend drained and pushed back).
C5_Witness ==
  /\ pc = "sanity"
  /\ caller = "repair"
  /\ UNION {ringLog[j].asked : j \in 1 .. Len(ringLog)} = {4, 5}

\* C6: for inputs with distinct real indices, no absolute index is a decoy
\* of two different rings of the call.
C6_NoSharedDecoy ==
  (\A a, b \in 1 .. Len(inputs) : a # b => inputs[a] # inputs[b]) =>
    \A a, b \in 1 .. Len(res) : a # b => DecoyIndices(a) \cap DecoyIndices(b) = {}

\* C6 witness: two rings returned for distinct real indices, one of them
\* holding a decoy that a repair iteration had released.
C6_Witness ==
  /\ Returned
  /\ Len(res) = 2
  /\ inputs[1] # inputs[2]
  /\ \E j \in 1 .. 2 : DecoyIndices(j) \cap everReleased # {}

\* C7: once used is seeded, every real input's index stays in it, select_n
\* never returns one, and no ring holds a real input's index as a decoy.
C7_RealIndicesReserved ==
  distribution # <<>> =>
    /\ Indices(outputs) \subseteq used
    /\ Indices(confirmed) \cap Indices(outputs) = {}
    /\ Indices(decoys) \cap Indices(outputs) = {}
    /\ selRet # <<>> => Indices(selRet[1].records) \cap Indices(outputs) = {}
    /\ \A m \in 1 .. Len(ring) :
         ring[m].idx \in Indices(outputs) => ring[m] = outputs[cur]
    /\ \A j \in 1 .. Len(res) : DecoyIndices(j) \cap Indices(outputs) = {}

\* C7 witness: a repair iteration of the second of two rings has drained the
\* real spend and released the other four it drained.
C7_Witness ==
  /\ pc = "select_n"
  /\ caller = "repair"
  /\ cur = 2
  /\ ringLog[2].realDrained
  /\ everReleased # {}
  /\ inputs[1] # inputs[2]

\* C8: a successful call returns one Decoys per input, the k-th built for
\* the k-th input.
C8_OnePerInputInOrder ==
  Returned =>
    /\ Len(result.decoys) = Len(inputs)
    /\ \A k \in 1 .. Len(inputs) :
         LET d == result.decoys[k] IN
         /\ d.ring[d.i + 1] = RealData(k)
         /\ PrefixSums(d.offsets)[d.i + 1] = inputs[k]

\* C8 witness: a call with two inputs of different indices returned.
C8_Witness ==
  /\ Returned
  /\ Len(inputs) = 2
  /\ inputs[1] > inputs[2]

\* C9: a failed lookup ends the call with the chain-communication error, no
\* lookup follows it, and no Decoys is returned.
C9_FailureAborts ==
  failed # "none" =>
    /\ pc = "error"
    /\ result.tag = "Err"
    /\ result.decoys = <<>>
    /\ afterFailure = 0

\* C9 witness: get_outputs failed inside a repair iteration of the second
\* ring, after the first ring had been pushed.
C9_Witness ==
  /\ failed = "get_outputs"
  /\ caller = "repair"
  /\ Len(res) = 1

\* C10: a return of select_n holds exactly count records, pairwise distinct,
\* none in used at entry, all resolved by get_outputs in this call; every
\* batch had as many entries as records were outstanding.
C10_SelectNReturn ==
  /\ \A b \in 1 .. Len(selBatches) : selBatches[b][1] = selBatches[b][2]
  /\ selRet # <<>> =>
       LET r == selRet[1] IN
       /\ Len(r.records) = r.count
       /\ Cardinality(Indices(r.records)) = r.count
       /\ Indices(r.records) \cap r.entryUsed = {}
       /\ Indices(r.records) \subseteq r.resolved
       /\ \A m \in 1 .. Len(r.records) : r.records[m].data = ChainData(r.records[m].idx)
       /\ \A b \in 1 .. Len(r.batches) : r.batches[b][1] = r.batches[b][2]
       /\ r.batches[1][1] = r.count

\* C10 witness: select_n returned after three or more batches, the later
\* ones smaller than the first.
C10_Witness ==
  /\ selRet # <<>>
  /\ Len(selRet[1].batches) >= 3
  /\ selRet[1].batches[2][1] < selRet[1].count

\* The median of a ring: the index of its member at position RING_LEN / 2.
Median(r) == At(r, RING_LEN \div 2).idx

\* C11: an index get_outputs answered None for stays in used for the rest of
\* the call, is in no later batch, and is in no pool, ring or Decoys.
C11_UnresolvedStaysReserved ==
  /\ everUnresolved \subseteq used
  /\ everUnresolved \cap Range(candidates) = {}
  /\ everUnresolved \cap (Indices(confirmed) \cup Indices(decoys) \cup Indices(ring)) = {}
  /\ \A j \in 1 .. Len(res) : everUnresolved \cap Range(PrefixSums(res[j].offsets)) = {}

\* C11 witness: a call returned after get_outputs had dropped candidates and
\* repair iterations had released indices, some of them above a dropped one.
C11_Witness ==
  /\ Returned
  /\ \E a \in everUnresolved : \E b \in everReleased : a < b
  /\ \E j \in 1 .. Len(res) : ringLog[j].repairs = 2

\* C12: with high <= 500 select_n is called once only, for the pool; no
\* index leaves used; every ring pushed is the real output and the DECOYS
\* pool entries drained for its input, unrepaired.
C12_SmallChainSkipsRepair ==
  high <= SANITY_HIGH =>
    /\ selCalls <= 1
    /\ everReleased = {}
    /\ \A j \in 1 .. Len(ringLog) : ringLog[j].repairs = 0
    /\ \A j \in 1 .. Len(res) :
         /\ Range(PrefixSums(res[j].offsets)) =
              {outputs[j].idx} \cup Indices(ringLog[j].group)
         /\ Range(res[j].ring) =
              {outputs[j].data} \cup {ringLog[j].group[m].data : m \in 1 .. DECOYS}
         /\ Len(ringLog[j].group) = DECOYS
         /\ Range(ringLog[j].group) \subseteq Range(pooled)

\* C12 witness: two rings returned on a chain with MATURITY < high <= 500,
\* one of them with a median below high * 2 / 3.
C12_Witness ==
  /\ Returned
  /\ high > MATURITY
  /\ high <= SANITY_HIGH
  /\ Len(res) = 2
  /\ \E j \in 1 .. Len(res) :
       At(PrefixSums(res[j].offsets), RING_LEN \div 2) < TargetMedian(high)

\* C13: for a strictly ascending slice, offset returns as many entries, the
\* first the first index, each later one the difference to the index before
\* it, none below zero, and their prefix sums are the slice.
C13_OffsetRoundTrip ==
  (offsets # <<>> /\ StrictlyAscending(slice)) =>
    /\ Len(offsets) = Len(slice)
    /\ At(offsets, 0) = At(slice, 0)
    /\ \A m \in 1 .. (Len(slice) - 1) :
         /\ At(offsets, m) = At(slice, m) - At(slice, m - 1)
         /\ At(offsets, m) >= 0
    /\ PrefixSums(offsets) = slice

\* C13 witness: offset returned for a slice of RING_LEN indices that starts
\* above zero and has gaps of one and of more than one.
C13_Witness ==
  /\ offsets # <<>>
  /\ Len(slice) = RING_LEN
  /\ slice[1] > 0
  /\ \E m \in 2 .. RING_LEN : slice[m] - slice[m - 1] = 1
  /\ \E m \in 2 .. RING_LEN : slice[m] - slice[m - 1] > 1

\* The signers whose commitments are in the blocks the scanner has handled.
ScannedSigners ==
  UNION { {tributary[b][m].signer : m \in 1 .. Len(tributary[b])} : b \in 1 .. scanLast }

Cumulative(dist, i) == IF i < 0 THEN 0 ELSE At(dist, i)

\* C18: when lines 51-56 draw a candidate for the target index t, the block
\* i drawn from is the one whose range holds t,
\* cumulative(i - 1) <= t < cumulative(i), and the candidate is in
\* [cumulative(i - 1), cumulative(i)).
C18_BlockHoldsTarget ==
  (picked # <<>> /\ picked[1].drawn) =>
    LET d == picked[1] IN
    /\ Cumulative(pickDist, d.i - 1) <= d.t
    /\ d.t < Cumulative(pickDist, d.i)
    /\ Cumulative(pickDist, d.i - 1) <= d.c
    /\ d.c < Cumulative(pickDist, d.i)

\* Outstanding records of the running select_n, and the indices that can
\* still become one: the resolving candidates of the batch being filled and
\* the resolving indices of the sampled range that are not in used.
Outstanding == count - Len(confirmed)

Available ==
  {c \in Range(candidates) : Resolves(lockedEvery, c)}
    \cup {c \in (At(distribution, 0) .. (high - 1)) \ used : Resolves(lockedEvery, c)}

Starved == pc = "select_n" /\ Cardinality(Available) < Outstanding

C16_MedianNeverDecreases ==
  pc = "sanity" => Median(ring) >= ringLog[cur].prevMedian

\* C16 witness: a ring's second or later repair iteration has returned with
\* the median raised, still below the target.
C16_Witness ==
  /\ pc = "sanity"
  /\ ringLog[cur].repairs = 2
  /\ Median(ring) > ringLog[cur].prevMedian
  /\ NeedsRepair(high, ring)

\* C17: a repair iteration, up to its select_n call, removes the 5 lowest
\* members and nothing else: the 6 highest stay in the ring, in order, and
\* in used; the removed indices other than the real spend's leave used; the
\* real spend, if removed, is pushed back and stays in used; used changes
\* in no other way.
C17_RepairIterationFrame ==
  [][ (pc = "sanity" /\ pc' = "select_n") =>
        LET o == outputs[cur]
            low == SubSeq(ring, 1, RING_LEN \div 2)
            top == SubSeq(ring, (RING_LEN \div 2) + 1, RING_LEN)
        IN  /\ Len(ring) = RING_LEN
            /\ SubSeq(ring', 1, Len(top)) = top
            /\ Indices(ring') = Indices(top) \cup (Indices(low) \cap {o.idx})
            /\ Len(ring') = Len(top) + Cardinality(Indices(low) \cap {o.idx})
            /\ used' = used \ (Indices(low) \ {o.idx})
            /\ Indices(top) \cup {o.idx} \subseteq used'
            /\ count' = RING_LEN - Len(ring') ]_vars

\* C17 witness: a repair iteration has just drained the real spend and
\* pushed it back; its select_n has not sampled yet.
C17_Witness ==
  /\ pc = "select_n"
  /\ caller = "repair"
  /\ candidates = <<>>
  /\ confirmed = <<>>
  /\ selBatches = <<>>
  /\ rng \in Seeds
  /\ Len(ring) = (RING_LEN \div 2) + 2

\* The group of DECOYS consecutive pool entries that is the k-th from the
\* pool's front, and the k-th from its end.
GroupFromFront(k) == SubSeq(pooled, ((k - 1) * DECOYS) + 1, k * DECOYS)
GroupFromEnd(k) ==
  SubSeq(pooled, Len(pooled) - (k * DECOYS) + 1, Len(pooled) - ((k - 1) * DECOYS))

\* C19 as stated: the k-th input receives the k-th consecutive group of
\* DECOYS pool entries.
C19_GroupsInInputOrder ==
  \A k \in 1 .. Len(ringLog) : ringLog[k].group = GroupFromFront(k)

\* C19, amended: the k-th input receives the k-th group of DECOYS pool
\* entries counted from the pool's end; the groups are disjoint; the pool is
\* empty once the last input has taken its group.
C19_GroupsFromTheEnd ==
  /\ \A k \in 1 .. Len(ringLog) : ringLog[k].group = GroupFromEnd(k)
  /\ \A k, l \in 1 .. Len(ringLog) :
       k # l => Indices(ringLog[k].group) \cap Indices(ringLog[l].group) = {}
  /\ (Len(ringLog) = Len(inputs) /\ Len(inputs) > 0) => decoys = <<>>
  /\ pc = "for_outputs" => decoys = SubSeq(pooled, 1, Len(pooled) - (cur * DECOYS))

\* C19 witness: a call with two inputs returned; the first ring took the
\* pool's last DECOYS entries, the second its first.
C19_Witness ==
  /\ Returned
  /\ Len(res) = 2
  /\ ringLog[1].group = SubSeq(pooled, DECOYS + 1, 2 * DECOYS)
  /\ ringLog[2].group = SubSeq(pooled, 1, DECOYS)
  /\ decoys = <<>>

\* C20: on a non-empty distribution with high >= MATURITY, high - 1 - o does
\* not underflow, the block index is a position of the distribution, every
\* candidate is below high, the pool holds DECOYS entries when a ring is
\* drained from it, and the real-spend position fits a u8.
C20_NoOutOfRangeNoUnderflow ==
  (distribution # <<>> /\ high >= MATURITY) =>
    /\ lastPick.taken =>
         /\ lastPick.t >= 0
         /\ lastPick.i \in 0 .. (Len(distribution) - 1)
    /\ lastPick.drawn => lastPick.c \in 0 .. (high - 1)
    /\ \A c \in Range(candidates) : c < high
    /\ pc = "for_outputs" => Len(decoys) >= DECOYS
    /\ \A j \in 1 .. Len(res) : res[j].i \in 0 .. ((2 ^ 8) - 1)

\* C20 witness: a call with two inputs returned on a chain with
\* high >= MATURITY after a sampler iteration took the offset high - 1.
C20_Witness ==
  /\ high >= MATURITY
  /\ pc = "select_n"
  /\ lastPick.taken
  /\ lastPick.t = 0
  /\ Len(inputs) = 2

====
